---- MODULE Spec2Model ----
(***************************************************************************)
(* Model of the migration utility migrate_to_s3.py and of the two storage  *)
(* providers of app/storage.py it drives.                                  *)
(*                                                                         *)
(* A stored object is modelled by its key and the length of its content.   *)
(* A directory / bucket is a function from keys to content lengths.        *)
(* An ordered Python dict is a sequence of <<key, value>> pairs.           *)
(***************************************************************************)
EXTENDS Integers, Sequences, FiniteSets, TLC

\* ---------------------------------------------------------------- bounds
MaxFiles == 3          \* most files in the local directory
MaxRetriesBound == 3   \* largest --max-retries tried
MaxConcurrency == 2    \* largest --concurrent-uploads tried

\* list_objects_v2 returns at most one page of keys per call (1000 at S3);
\* the page is scaled down so that an inventory can exceed it.
MaxKeys == 2

\* ------------------------------------------------------------ file names
GitKeep == ".gitkeep"
\* in S3's (lexicographic) listing order
AllNames == <<"a.png", "b.png", "c.png", "d.png", "e.png", "f.png">>
AllSizes == <<3, 0, 5, 1, 2, 4>>
\* a file that is uploaded to the image host while the migration runs
LateName == "late.png"
S3KeyOrder == <<GitKeep>> \o AllNames \o <<LateName>>
\* the order os.listdir happens to return the entries in
DirOrder ==
    <<"f.png", "e.png", "d.png", GitKeep, LateName, "c.png", "b.png", "a.png">>

EmptyMap == [k \in {} |-> 0]

SizeOfName(name) ==
    IF name = GitKeep THEN 0
    ELSE AllSizes[CHOOSE j \in 1..Len(AllNames) : AllNames[j] = name]

\* a directory holding the first n names, with or without the placeholder
DirWith(n, keep) ==
    [name \in {AllNames[j] : j \in 1..n} \cup (IF keep THEN {GitKeep} ELSE {})
        |-> SizeOfName(name)]

Range(s) == {s[j] : j \in 1..Len(s)}

RECURSIVE Pow2(_)
Pow2(n) == IF n = 0 THEN 1 ELSE 2 * Pow2(n - 1)

MapPut(f, k, v) == [x \in DOMAIN f \cup {k} |-> IF x = k THEN v ELSE f[x]]
MapDel(f, k) == [x \in DOMAIN f \ {k} |-> f[x]]

\* ------------------------------------------------------ storage providers
\* os.listdir: the entries of the directory, in directory order
ListDir(dir) == SelectSeq(DirOrder, LAMBDA name : name \in DOMAIN dir)

\* LocalStorageProvider.list_files: drop .gitkeep, stat every other entry
LocalListFiles(dir) ==
    LET files == SelectSeq(ListDir(dir), LAMBDA name : name # GitKeep)
    IN  [j \in 1..Len(files) |-> <<files[j], dir[files[j]]>>]

\* LocalStorageProvider.save_file: write the content to the new entry
LocalSaveFile(dir, filename, content) == MapPut(dir, filename, content)

\* LocalStorageProvider.delete_file: os.remove of the entry
LocalDeleteFile(dir, filename) == MapDel(dir, filename)

\* S3StorageProvider.save_file: put_object, overwriting
S3SaveFile(bucket, filename, content) == MapPut(bucket, filename, content)

\* the response of s3.list_objects_v2(Bucket=...): the first page of keys in
\* key order; a response without keys has no "Contents" field
ListObjectsV2(bucket) ==
    LET keys == SelectSeq(S3KeyOrder, LAMBDA k : k \in DOMAIN bucket)
        page == SubSeq(keys, 1, IF Len(keys) < MaxKeys THEN Len(keys) ELSE MaxKeys)
    IN  IF page = <<>>
        THEN [KeyCount |-> 0]
        ELSE [KeyCount |-> Len(page),
              Contents |-> [j \in 1..Len(page) |->
                               [Key |-> page[j], Size |-> bucket[page[j]]]]]

\* S3StorageProvider.list_files: the Contents of ONE list_objects_v2 response
S3ListFiles(bucket) ==
    LET response == ListObjectsV2(bucket)
    IN  IF "Contents" \in DOMAIN response
        THEN [k \in {response.Contents[j].Key : j \in 1..Len(response.Contents)}
                 |-> bucket[k]]
        ELSE EmptyMap

\* sum(files.values())
RECURSIVE SumValues(_)
SumValues(f) ==
    IF DOMAIN f = {} THEN 0
    ELSE LET k == CHOOSE x \in DOMAIN f : TRUE
         IN  f[k] + SumValues(MapDel(f, k))

\* the Python dict of an ordered list of <<key, value>> pairs
DictOf(pairs) ==
    [k \in {pairs[j][1] : j \in 1..Len(pairs)} |->
        pairs[CHOOSE j \in 1..Len(pairs) : pairs[j][1] = k][2]]

\* LocalStorageProvider.get_file_count: the entries left without .gitkeep
LocalGetFileCount(dir) ==
    Len(SelectSeq(ListDir(dir), LAMBDA name : name # GitKeep))

\* LocalStorageProvider.get_total_size: getsize of each of these entries
LocalGetTotalSize(dir) ==
    SumValues([name \in DOMAIN dir \ {GitKeep} |-> dir[name]])

\* S3StorageProvider.get_file_count: len(await self.list_files())
S3GetFileCount(bucket) == Cardinality(DOMAIN S3ListFiles(bucket))

\* S3StorageProvider.get_total_size: sum of the sizes list_files returns
S3GetTotalSize(bucket) == SumValues(S3ListFiles(bucket))

\* ------------------------------------------------------------- settings
\* settings.storage_type.lower()
Lower(s) == IF s = "S3" THEN "s3" ELSE s

\* A setting of type str | None: unset, or a text (a sequence of pieces,
\* every "/" a piece of its own), possibly the empty one.
None == [set |-> FALSE, text |-> <<>>]
Str(text) == [set |-> TRUE, text |-> text]
\* the truth value Python gives it: None and "" are false
Truthy(v) == v.set /\ v.text # <<>>

EndpointUrl == Str(<<"https:", "/", "/", "r2.example", "/">>)
AccessKeyId == Str(<<"key-id">>)
SecretAccessKey == Str(<<"secret">>)
BucketName == Str(<<"images">>)
CustomDomain == Str(<<"https:", "/", "/", "cdn.example", "/", "/">>)

MkSettings(type, endpoint, id, secret, name, domain) ==
    [storage_type |-> type,
     s3_endpoint_url |-> endpoint,
     s3_access_key_id |-> id,
     s3_secret_access_key |-> secret,
     s3_bucket_name |-> name,
     s3_region |-> <<"auto">>,
     s3_custom_domain |-> domain]

AllSet(type) ==
    MkSettings(type, EndpointUrl, AccessKeyId, SecretAccessKey, BucketName, None)

\* the settings the migration is explored with
SettingsSet ==
    {AllSet("s3"),
     AllSet("S3"),
     [AllSet("s3") EXCEPT !.s3_bucket_name = None],
     AllSet("local")}

\* the settings the providers are explored with: every required field unset,
\* empty or set; a custom domain, set or empty; the defaults
Unusable == {None, Str(<<>>)}
AllSettings ==
    SettingsSet
    \cup {MkSettings("s3", e, a, x, b, None) :
             e \in Unusable \cup {EndpointUrl}, a \in Unusable \cup {AccessKeyId},
             x \in Unusable \cup {SecretAccessKey}, b \in Unusable \cup {BucketName}}
    \cup {[AllSet("s3") EXCEPT !.s3_custom_domain = d] :
             d \in {CustomDomain, Str(<<>>)}}
    \cup {MkSettings("local", None, None, None, None, None)}

\* all([...]) of the four required fields
RequiredFields(st) ==
    <<st.s3_endpoint_url, st.s3_access_key_id, st.s3_secret_access_key,
      st.s3_bucket_name>>
AllOf(values) == \A j \in 1..Len(values) : Truthy(values[j])

RequiredFieldsIgnored(values) == TRUE

\* if not all([...]): raise ValueError
Validated(values) == AllOf(values)

\* get_storage_provider: "s3" | "local" | "ValueError"
GetStorageProvider(st) ==
    IF Lower(st.storage_type) = "s3"
    THEN (IF Validated(RequiredFields(st)) THEN "s3" ELSE "ValueError")
    ELSE "local"

\* the provider object get_storage_provider returns
NewProvider(st) ==
    IF GetStorageProvider(st) = "s3"
    THEN [class |-> "S3StorageProvider",
          endpoint_url |-> st.s3_endpoint_url.text,
          access_key_id |-> st.s3_access_key_id.text,
          secret_access_key |-> st.s3_secret_access_key.text,
          bucket_name |-> st.s3_bucket_name.text,
          region |-> st.s3_region,
          custom_domain |-> st.s3_custom_domain]
    ELSE [class |-> "LocalStorageProvider", base_path |-> <<"files">>]

\* str.rstrip("/")
RECURSIVE RStripSlash(_)
RStripSlash(text) ==
    IF text # <<>> /\ text[Len(text)] = "/"
    THEN RStripSlash(SubSeq(text, 1, Len(text) - 1))
    ELSE text

\* LocalStorageProvider.get_file_url
LocalGetFileUrl(provider, filename) ==
    provider.base_path \o <<"/", filename>>

\* S3StorageProvider.get_file_url
S3GetFileUrl(provider, filename) ==
    IF Truthy(provider.custom_domain)
    THEN RStripSlash(provider.custom_domain.text) \o <<"/", filename>>
    ELSE IF provider.endpoint_url # <<>>
    THEN RStripSlash(provider.endpoint_url)
             \o <<"/">> \o provider.bucket_name \o <<"/", filename>>
    ELSE <<"https:", "/", "/">> \o provider.bucket_name \o <<".s3.">>
             \o provider.region \o <<".amazonaws.com", "/", filename>>

\* ------------------------------------------------------------ the prompt
\* What is typed at "Continue? (y/N): ", a sequence of characters.
Whitespace == {" ", "\t"}
Answers ==
    {<<"y">>, <<"n">>, <<>>, <<" ", "Y", "\t">>, <<"y", "e", "s">>,
     <<"y", " ", "y">>, <<" ", "N">>}

\* str.strip()
RECURSIVE Strip(_)
Strip(text) ==
    IF text = <<>> THEN text
    ELSE IF text[1] \in Whitespace THEN Strip(Tail(text))
    ELSE IF text[Len(text)] \in Whitespace
    THEN Strip(SubSeq(text, 1, Len(text) - 1))
    ELSE text

\* str.lower(), for the letters that are typed
LowerChar(c) ==
    CASE c = "Y" -> "y"
      [] c = "N" -> "n"
      [] c = "E" -> "e"
      [] c = "S" -> "s"
      [] OTHER -> c
LowerText(text) == [j \in 1..Len(text) |-> LowerChar(text[j])]

VARIABLES
    settings,            \* app.config.settings
    delete_local, dry_run, concurrent_uploads, max_retries, start_from,
    answer,              \* what the operator types at the prompt
    entry,               \* the function called: main or migrate_files_to_s3
    s3Up,                \* does the bucket answer list_objects_v2
    localRoot,           \* does the local directory exist
    localDir,            \* the local directory: name -> size
    bucket,              \* the S3 bucket: key -> size
    pc,                  \* position of migrate_files_to_s3
    outcome,             \* the message the run ended with
    file_list,           \* list(local_files.items())
    files_to_process,    \* file_list[start_from - 1:]
    skipped_count,
    dry_report,          \* the lines of the dry-run listing
    semaphore,           \* value of the asyncio.Semaphore
    tpc,                 \* per task: pending / reading / saving / sleeping / done
    attempt,             \* per task: loop variable of upload_file_with_retry
    content,             \* per task: bytes read from the local file
    sleepLeft,           \* per task: time left of the current asyncio.sleep
    faults,              \* per task: how many of its first attempts fail
    successful_uploads, failed_uploads, completed_count,
    status_lines,        \* the per-task progress lines printed
    delete_skipped,      \* "Not deleting local files due to upload failures"
    delIdx,              \* position of the deletion loop
    delete_failed,       \* the keys of "Failed to delete local file"
    preDir, preBucket,   \* history: both stores as they were before the run
    calls,               \* history: <<backend, operation, key>> invoked
    attemptsMade,        \* history, per task: attempts started
    backoffs,            \* history, per task: the sleeps requested
    api                  \* the last call of a StorageProvider method

inputs == <<settings, delete_local, dry_run, concurrent_uploads, max_retries,
            start_from, answer, localRoot, entry, s3Up>>
stores == <<localDir, bucket>>
job == <<pc, outcome, file_list, files_to_process, skipped_count, dry_report,
         delete_skipped, delIdx, delete_failed>>
taskv == <<semaphore, tpc, attempt, content, sleepLeft, faults, attemptsMade,
           backoffs>>
accum == <<successful_uploads, failed_uploads, completed_count, status_lines>>
vars == <<inputs, stores, job, taskv, accum, calls, preDir, preBucket, api>>
\* what no step of the migration writes
pre == <<preDir, preBucket, api>>

Tasks == 1..Len(files_to_process)
NoTasks == [i \in {} |-> 0]

\* The inputs explored.  Runs with many files are explored with few retries
\* and runs with many retries with few files; a configuration spelled "S3",
\* a placeholder in the directory, a bucket that is not empty and the answers
\* that are not a plain y or n are explored
\* in runs without retries that upload one file at a time, and so are the
\* calls of migrate_files_to_s3 that do not come from main.
NoCall == [op |-> "none", key |-> "", status |-> "none", value |-> 0]

Plain ==
    /\ settings.storage_type = "s3"
    /\ answer \in {<<"y">>, <<"n">>}
    /\ entry = "main"
    /\ bucket = EmptyMap
    /\ GitKeep \notin DOMAIN localDir
Focus ==
    /\ Cardinality(DOMAIN localDir \ {GitKeep}) <= 2 \/ max_retries <= 1
    /\ Plain \/ (max_retries = 0 /\ concurrent_uploads = 1)
    /\ s3Up \/ entry = "main"

Init ==
    /\ settings \in SettingsSet
    /\ delete_local \in BOOLEAN
    /\ dry_run \in BOOLEAN
    /\ concurrent_uploads \in 1..MaxConcurrency
    /\ max_retries \in 0..MaxRetriesBound
    /\ start_from \in 0..(MaxFiles + 1)
    /\ answer \in Answers
    /\ localRoot \in BOOLEAN
    /\ entry \in {"main", "migrate"}
    /\ s3Up \in BOOLEAN
    /\ \E n \in 0..MaxFiles, keep \in BOOLEAN :
          localDir = IF localRoot THEN DirWith(n, keep) ELSE EmptyMap
    /\ bucket \in {EmptyMap, [k \in {AllNames[1]} |-> 7]}
    /\ Focus
    /\ pc = IF entry = "main" THEN "main" ELSE "start"
    /\ outcome = "none"
    /\ file_list = <<>>
    /\ files_to_process = <<>>
    /\ skipped_count = 0
    /\ dry_report = <<>>
    /\ semaphore = 0
    /\ tpc = NoTasks
    /\ attempt = NoTasks
    /\ content = NoTasks
    /\ sleepLeft = NoTasks
    /\ faults = NoTasks
    /\ successful_uploads = <<>>
    /\ failed_uploads = <<>>
    /\ completed_count = 0
    /\ status_lines = <<>>
    /\ delete_skipped = FALSE
    /\ delIdx = 1
    /\ delete_failed = <<>>
    /\ preDir = localDir
    /\ preBucket = bucket
    /\ calls = {}
    /\ attemptsMade = NoTasks
    /\ backoffs = NoTasks
    /\ api = NoCall

\* ---------------------------------------------------------------- main
End(msg) == /\ pc' = "done"
            /\ outcome' = msg

\* what verify_s3_connection invokes: list_files of the S3 provider, if the
\* configured provider is one
VerifyCalls ==
    IF GetStorageProvider(settings) = "s3"
    THEN {<<"s3", "list", IF s3Up THEN "ok" ELSE "error">>}
    ELSE {}

VerifiedWhateverHappened == TRUE

\* verify_s3_connection: an S3 provider whose list_files returned
Verified == GetStorageProvider(settings) = "s3" /\ s3Up

\* if not await verify_s3_connection(): sys.exit(1)
MainNoConnection ==
    /\ pc = "main"
    /\ ~Verified
    /\ End("no_connection")
    /\ calls' = calls \cup VerifyCalls
    /\ UNCHANGED <<inputs, stores, file_list, files_to_process, skipped_count,
                   dry_report, delete_skipped, delIdx, delete_failed, taskv, accum,
                   pre>>

\* the connection test passed: main calls migrate_files_to_s3
MainVerified ==
    /\ pc = "main"
    /\ Verified
    /\ pc' = "start"
    /\ calls' = calls \cup VerifyCalls
    /\ UNCHANGED <<inputs, stores, outcome, file_list, files_to_process,
                   skipped_count, dry_report, delete_skipped, delIdx,
                   delete_failed, taskv, accum, pre>>

\* ------------------------------------------------ migrate_files_to_s3

\* STORAGE_TYPE is not s3, or get_storage_provider raised ValueError
ConfigError ==
    /\ pc = "start"
    /\ GetStorageProvider(settings) # "s3"
    /\ End("config_error")
    /\ UNCHANGED <<inputs, stores, file_list, files_to_process, skipped_count,
                   dry_report, delete_skipped, delIdx, delete_failed, taskv, accum,
                   calls, pre>>

\* local_provider.list_files() raised
ListError ==
    /\ pc = "start"
    /\ GetStorageProvider(settings) = "s3"
    /\ ~localRoot
    /\ End("list_error")
    /\ calls' = calls \cup {<<"local", "list", "">>}
    /\ UNCHANGED <<inputs, stores, file_list, files_to_process, skipped_count,
                   dry_report, delete_skipped, delIdx, delete_failed, taskv, accum,
                   pre>>

\* local_files = await local_provider.list_files()
ListLocal ==
    /\ pc = "start"
    /\ GetStorageProvider(settings) = "s3"
    /\ localRoot
    /\ file_list' = LocalListFiles(localDir)
    /\ pc' = "listed"
    /\ calls' = calls \cup {<<"local", "list", "">>}
    /\ UNCHANGED <<inputs, stores, outcome, files_to_process, skipped_count,
                   dry_report, delete_skipped, delIdx, delete_failed, taskv, accum,
                   pre>>

\* if not local_files: return
NoFiles ==
    /\ pc = "listed"
    /\ file_list = <<>>
    /\ End("no_files")
    /\ UNCHANGED <<inputs, stores, file_list, files_to_process, skipped_count,
                   dry_report, delete_skipped, delIdx, delete_failed, taskv, accum,
                   calls, pre>>

StartFromAtLeastOne == start_from >= 1

\* neither of the two --start-from checks fires
StartFromValid == start_from >= 1 /\ start_from <= Len(file_list)

\* the two --start-from checks
StartFromInvalid ==
    /\ pc = "listed"
    /\ file_list # <<>>
    /\ ~StartFromValid
    /\ End("validation_error")
    /\ UNCHANGED <<inputs, stores, file_list, files_to_process, skipped_count,
                   dry_report, delete_skipped, delIdx, delete_failed, taskv, accum,
                   calls, pre>>

SliceOfNewListing(list, from) ==
    SubSeq(LocalListFiles(localDir), from, Len(LocalListFiles(localDir)))

SliceOneLate(list, from) == SubSeq(list, from + 1, Len(list))

\* file_list[start_from - 1:]
Slice(list, from) == SubSeq(list, from, Len(list))

Sliced ==
    /\ pc = "listed"
    /\ file_list # <<>>
    /\ StartFromValid
    /\ files_to_process' = Slice(file_list, start_from)
    /\ skipped_count' = start_from - 1

DryRun ==
    /\ Sliced
    /\ dry_run
    /\ dry_report' = [j \in 1..Len(files_to_process') |->
                        <<start_from + j - 1, files_to_process'[j][1],
                          files_to_process'[j][2]>>]
    /\ End("dry_run")
    /\ UNCHANGED <<inputs, stores, file_list, delete_skipped, delIdx,
                   delete_failed, taskv, accum, calls, pre>>

ConfirmedUnlessNo == LowerText(Strip(answer)) # <<"n">>

\* confirm = input(...).strip().lower(); confirm == "y"
Confirmed == LowerText(Strip(answer)) = <<"y">>

\* anything but "y" cancels
Cancel ==
    /\ Sliced
    /\ ~dry_run
    /\ ~Confirmed
    /\ End("cancelled")
    /\ calls' = calls \cup {<<"operator", "confirm", "">>}
    /\ UNCHANGED <<inputs, stores, file_list, dry_report, delete_skipped,
                   delIdx, delete_failed, taskv, accum, pre>>

\* the semaphore and the tasks are created and handed to asyncio.gather
BeginUploads ==
    /\ pc' = "uploading"
    /\ semaphore' = concurrent_uploads
    /\ tpc' = [i \in 1..Len(files_to_process') |-> "pending"]
    /\ attempt' = [i \in 1..Len(files_to_process') |-> 0]
    /\ content' = [i \in 1..Len(files_to_process') |-> 0]
    /\ sleepLeft' = [i \in 1..Len(files_to_process') |-> 0]
    /\ faults' = [i \in 1..Len(files_to_process') |-> 0]
    /\ attemptsMade' = [i \in 1..Len(files_to_process') |-> 0]
    /\ backoffs' = [i \in 1..Len(files_to_process') |-> <<>>]
    /\ calls' = calls \cup {<<"operator", "confirm", "">>}
    /\ UNCHANGED <<inputs, stores, outcome, file_list, dry_report,
                   delete_skipped, delIdx, delete_failed, accum, pre>>

StartUploadsInDryRun ==
    /\ Sliced
    /\ Confirmed
    /\ BeginUploads

\* not a dry run, and the operator confirmed
StartUploads ==
    /\ Sliced
    /\ ~dry_run
    /\ Confirmed
    /\ BeginUploads

\* ------------------------------------------------ upload_with_progress
Filename(i) == files_to_process[i][1]

UnlockedAlways == TRUE

\* Semaphore.acquire goes through only while the value is positive
Unlocked == semaphore > 0

\* async with semaphore: waiters are served in the order the tasks were made.
\* The environment fixes here how many of the task's first attempts fail.
Acquire(i) ==
    /\ pc = "uploading"
    /\ tpc[i] = "pending"
    /\ \A j \in 1..(i - 1) : tpc[j] # "pending"
    /\ Unlocked
    /\ semaphore' = semaphore - 1
    /\ \E f \in 0..(max_retries + 1) : faults' = [faults EXCEPT ![i] = f]
    /\ tpc' = [tpc EXCEPT ![i] = "reading"]
    /\ attemptsMade' = [attemptsMade EXCEPT ![i] = 1]
    /\ UNCHANGED <<inputs, stores, job, attempt, content, sleepLeft, backoffs,
                   accum, calls, pre>>

SettleAndRunAgain(i, success) == tpc' = [tpc EXCEPT ![i] = "pending"]

SettleAndAbortOthers(i, success) ==
    tpc' = IF success THEN [tpc EXCEPT ![i] = "done"]
           ELSE [j \in DOMAIN tpc |-> "done"]

\* the coroutine of the task returns; gather(return_exceptions=True) leaves
\* every other task alone
Settle(i, success) == tpc' = [tpc EXCEPT ![i] = "done"]

ReleaseForgotten == UNCHANGED semaphore

ReleaseAfterSuccessOnly ==
    semaphore' = IF Len(failed_uploads') > Len(failed_uploads)
                 THEN semaphore ELSE semaphore + 1

\* leaving "async with semaphore"
Release == semaphore' = semaphore + 1

CountLostUnderConcurrency ==
    completed_count' = IF semaphore = 0 /\ concurrent_uploads > 1
                       THEN completed_count ELSE completed_count + 1

\* completed_count += 1
CountCompleted == completed_count' = completed_count + 1

\* the bookkeeping after upload_file_with_retry returned and the release of
\* the semaphore: no await in between
Complete(i, success, error) ==
    /\ CountCompleted
    /\ status_lines' = Append(status_lines,
            <<start_from + completed_count' - 1, Filename(i), success>>)
    /\ IF success
       THEN /\ successful_uploads' = Append(successful_uploads, Filename(i))
            /\ UNCHANGED failed_uploads
       ELSE /\ failed_uploads' = Append(failed_uploads, <<Filename(i), error>>)
            /\ UNCHANGED successful_uploads
    /\ Release
    /\ Settle(i, success)

BackoffLinear(n) == n + 1

\* 2 ** attempt
Backoff(n) == Pow2(n)

LastAttemptOneEarly(i) == attempt[i] + 1 >= max_retries

\* if attempt == max_retries
LastAttempt(i) == attempt[i] = max_retries

ErrorOfFirstAttempt(stage, n) == <<stage, 0>>

\* str(e) of the exception the attempt numbered n raised in the stage
ErrorOf(stage, n) == <<stage, n>>

\* except Exception as e: give up on the last attempt, else sleep 2 ** attempt
Failed(i, error) ==
    IF LastAttempt(i)
    THEN /\ Complete(i, FALSE, error)
         /\ UNCHANGED <<sleepLeft, backoffs>>
    ELSE /\ tpc' = [tpc EXCEPT ![i] = "sleeping"]
         /\ sleepLeft' = [sleepLeft EXCEPT ![i] = Backoff(attempt[i])]
         /\ backoffs' = [backoffs EXCEPT ![i] = Append(@, Backoff(attempt[i]))]
         /\ UNCHANGED <<semaphore, accum>>

\* content = await f.read()
ReadOk(i) ==
    /\ pc = "uploading"
    /\ tpc[i] = "reading"
    /\ Filename(i) \in DOMAIN localDir
    /\ content' = [content EXCEPT ![i] = localDir[Filename(i)]]
    /\ tpc' = [tpc EXCEPT ![i] = "saving"]
    /\ calls' = calls \cup {<<"local", "read", Filename(i)>>}
    /\ UNCHANGED <<inputs, stores, job, semaphore, attempt, sleepLeft, faults,
                   attemptsMade, backoffs, accum, pre>>

\* opening or reading the local file raised
ReadFail(i) ==
    /\ pc = "uploading"
    /\ tpc[i] = "reading"
    /\ attempt[i] < faults[i] \/ Filename(i) \notin DOMAIN localDir
    /\ Failed(i, ErrorOf("read", attempt[i]))
    /\ calls' = calls \cup {<<"local", "read", Filename(i)>>}
    /\ UNCHANGED <<inputs, stores, job, attempt, content, faults, attemptsMade,
                   pre>>

\* await s3_provider.save_file(filename, content); return filename, True, ""
SaveOk(i) ==
    /\ pc = "uploading"
    /\ tpc[i] = "saving"
    /\ attempt[i] >= faults[i]
    /\ bucket' = S3SaveFile(bucket, Filename(i), content[i])
    /\ Complete(i, TRUE, "")
    /\ calls' = calls \cup {<<"s3", "save", Filename(i)>>}
    /\ UNCHANGED <<inputs, localDir, job, attempt, content, sleepLeft, faults,
                   attemptsMade, backoffs, pre>>

\* put_object raised: nothing is stored
SaveFail(i) ==
    /\ pc = "uploading"
    /\ tpc[i] = "saving"
    /\ attempt[i] < faults[i]
    /\ Failed(i, ErrorOf("save", attempt[i]))
    /\ calls' = calls \cup {<<"s3", "save", Filename(i)>>}
    /\ UNCHANGED <<inputs, stores, job, attempt, content, faults, attemptsMade,
                   pre>>

\* time passes, up to the next expiry, for every task inside asyncio.sleep
Tick ==
    /\ pc = "uploading"
    /\ \E i \in Tasks : tpc[i] = "sleeping" /\ sleepLeft[i] > 0
    /\ LET waiting == {i \in Tasks : tpc[i] = "sleeping" /\ sleepLeft[i] > 0}
           d == CHOOSE t \in {sleepLeft[i] : i \in waiting} :
                    \A i \in waiting : t <= sleepLeft[i]
       IN  sleepLeft' = [i \in Tasks |->
                IF i \in waiting THEN sleepLeft[i] - d ELSE sleepLeft[i]]
    /\ UNCHANGED <<inputs, stores, job, semaphore, tpc, attempt, content,
                   faults, attemptsMade, backoffs, accum, calls, pre>>

\* asyncio.sleep returned: next iteration of the for loop
Wake(i) ==
    /\ pc = "uploading"
    /\ tpc[i] = "sleeping"
    /\ sleepLeft[i] = 0
    /\ attempt' = [attempt EXCEPT ![i] = @ + 1]
    /\ attemptsMade' = [attemptsMade EXCEPT ![i] = @ + 1]
    /\ tpc' = [tpc EXCEPT ![i] = "reading"]
    /\ UNCHANGED <<inputs, stores, job, semaphore, content, sleepLeft, faults,
                   backoffs, accum, calls, pre>>

\* ------------------------------------------ after asyncio.gather returned
FirstSettled == \E i \in Tasks : tpc[i] = "done"

\* results = await asyncio.gather(*tasks, return_exceptions=True)
AllSettled == \A i \in Tasks : tpc[i] = "done"

DeleteWhateverFailed == delete_local

\* if delete_local and not failed_uploads
ShouldDelete == delete_local /\ failed_uploads = <<>>

\* the report, and the choice between deleting and not deleting
Report ==
    /\ pc = "uploading"
    /\ AllSettled
    /\ outcome' = "completed"
    /\ IF ShouldDelete
       THEN pc' = "deleting" /\ UNCHANGED delete_skipped
       ELSE pc' = "done" /\ delete_skipped' = (delete_local /\ failed_uploads # <<>>)
    /\ UNCHANGED <<inputs, stores, file_list, files_to_process, skipped_count,
                   dry_report, delIdx, delete_failed, taskv, accum, calls, pre>>

DeleteEveryListedFile == [j \in 1..Len(file_list) |-> file_list[j][1]]

\* for filename in successful_uploads
ToDelete == successful_uploads

NextDelete ==
    /\ delIdx' = delIdx + 1
    /\ pc' = IF delIdx = Len(ToDelete) THEN "done" ELSE "deleting"

\* await local_provider.delete_file(filename)
DeleteOk ==
    /\ pc = "deleting"
    /\ ToDelete[delIdx] \in DOMAIN localDir
    /\ localDir' = LocalDeleteFile(localDir, ToDelete[delIdx])
    /\ calls' = calls \cup {<<"local", "delete", ToDelete[delIdx]>>}
    /\ NextDelete
    /\ UNCHANGED <<inputs, bucket, outcome, file_list, files_to_process,
                   skipped_count, dry_report, delete_skipped, delete_failed,
                   taskv, accum, pre>>

DeleteFailEndsTheLoop ==
    /\ pc = "deleting"
    /\ calls' = calls \cup {<<"local", "delete", ToDelete[delIdx]>>}
    /\ delete_failed' = Append(delete_failed, ToDelete[delIdx])
    /\ delIdx' = delIdx + 1
    /\ pc' = "done"
    /\ UNCHANGED <<inputs, stores, outcome, file_list, files_to_process,
                   skipped_count, dry_report, delete_skipped, taskv, accum, pre>>

\* delete_file raised (file gone, or the remove failed): reported, loop goes on
DeleteFail ==
    /\ pc = "deleting"
    /\ calls' = calls \cup {<<"local", "delete", ToDelete[delIdx]>>}
    /\ delete_failed' = Append(delete_failed, ToDelete[delIdx])
    /\ NextDelete
    /\ UNCHANGED <<inputs, stores, outcome, file_list, files_to_process,
                   skipped_count, dry_report, delete_skipped, taskv, accum, pre>>

Next ==
    \/ MainNoConnection
    \/ MainVerified
    \/ ConfigError
    \/ ListError
    \/ ListLocal
    \/ NoFiles
    \/ StartFromInvalid
    \/ DryRun
    \/ Cancel
    \/ StartUploads
    \/ \E i \in Tasks : Acquire(i)
    \/ \E i \in Tasks : ReadOk(i)
    \/ \E i \in Tasks : ReadFail(i)
    \/ \E i \in Tasks : SaveOk(i)
    \/ \E i \in Tasks : SaveFail(i)
    \/ Tick
    \/ \E i \in Tasks : Wake(i)
    \/ Report
    \/ DeleteOk
    \/ DeleteFail

Spec == Init /\ [][Next]_vars

\* ------------------------------------------------- the event loop is fair
\* A task that can take its next step takes it: the event loop resumes a
\* coroutine whose await is over, every read and save returns or raises,
\* and time passes for the sleeping tasks; gather hands over when all
\* tasks are done.
TaskStep(i) ==
    /\ i \in Tasks
    /\ \/ Acquire(i)
       \/ ReadOk(i) \/ ReadFail(i)
       \/ SaveOk(i) \/ SaveFail(i)
       \/ Wake(i)

Fairness ==
    /\ \A i \in 1..MaxFiles : WF_vars(TaskStep(i))
    /\ WF_vars(Tick)
    /\ WF_vars(Report)

\* explored from an empty bucket, without the placeholder, with a plain
\* answer, with retries for two files at most and without deletion then
InitLive ==
    /\ Init
    /\ bucket = EmptyMap
    /\ GitKeep \notin DOMAIN localDir
    /\ answer \in {<<"y">>, <<"n">>}
    /\ max_retries = 0 \/ Cardinality(DOMAIN localDir) <= 2
    /\ max_retries <= 2
    /\ max_retries = 0 \/ ~delete_local

LiveSpec == InitLive /\ [][Next]_vars /\ Fairness

\* ------------------------------------- the source written to during a run
\* The image host stays in service while the migration runs: its upload
\* route saves a new file into the directory after the listing was taken.
AddObject ==
    /\ pc \in {"listed", "uploading", "deleting"}
    /\ localRoot
    /\ LateName \notin DOMAIN localDir
    /\ \E size \in {0, 6} :
          localDir' = LocalSaveFile(localDir, LateName, size)
    /\ UNCHANGED <<inputs, bucket, job, taskv, accum, calls, pre>>

\* explored with at most one retry, and with a retry for two files at most
InitLate ==
    /\ Init
    /\ max_retries <= 1
    /\ max_retries = 0 \/ Cardinality(DOMAIN localDir \ {GitKeep}) <= 2

NextLate == Next \/ AddObject

SpecLate == InitLate /\ [][NextLate]_vars

\* ------------------------------------------- the StorageProvider in use
\* The routes of the image host call the methods of the provider that
\* get_storage_provider built from the settings, one call after the other.
Provider == GetStorageProvider(settings)
Stored == IF Provider = "s3" THEN bucket ELSE localDir
ApiKeys == {AllNames[j] : j \in 1..MaxFiles}
StoreContents == {DirWith(n, keep) : n \in 0..MaxFiles, keep \in BOOLEAN}

InitStorage ==
    /\ settings \in AllSettings
    /\ delete_local = FALSE
    /\ dry_run = FALSE
    /\ concurrent_uploads = 1
    /\ max_retries = 0
    /\ start_from = 1
    /\ answer = <<"n">>
    /\ entry = "routes"
    /\ localRoot \in BOOLEAN
    /\ s3Up \in BOOLEAN
    /\ localDir \in IF Provider = "local" /\ localRoot
                    THEN StoreContents ELSE {EmptyMap}
    /\ bucket \in IF Provider = "local" THEN {EmptyMap} ELSE StoreContents
    /\ pc = "boot"
    /\ outcome = "none"
    /\ file_list = <<>>
    /\ files_to_process = <<>>
    /\ skipped_count = 0
    /\ dry_report = <<>>
    /\ semaphore = 0
    /\ tpc = NoTasks
    /\ attempt = NoTasks
    /\ content = NoTasks
    /\ sleepLeft = NoTasks
    /\ faults = NoTasks
    /\ successful_uploads = <<>>
    /\ failed_uploads = <<>>
    /\ completed_count = 0
    /\ status_lines = <<>>
    /\ delete_skipped = FALSE
    /\ delIdx = 1
    /\ delete_failed = <<>>
    /\ preDir = localDir
    /\ preBucket = bucket
    /\ calls = {}
    /\ attemptsMade = NoTasks
    /\ backoffs = NoTasks
    /\ api = NoCall

Returned(op, key, value) ==
    api' = [op |-> op, key |-> key, status |-> "ok", value |-> value]
\* raise fastapi.HTTPException(status_code=code, ...)
HTTPException(op, key, code) ==
    api' = [op |-> op, key |-> key, status |-> "HTTPException", value |-> code]
\* an exception the method does not catch
Raised(op, key, exception) ==
    api' = [op |-> op, key |-> key, status |-> "raised", value |-> exception]

\* an S3 call that fails: botocore raises ClientError for an error response
\* of the service and another exception when there is no response
S3Failure(op, key) ==
    \/ HTTPException(op, key, 500)
    \/ Raised(op, key, "EndpointConnectionError")

\* listdir raised FileNotFoundError
DirectoryNotFound(op) == HTTPException(op, "", 404)

Rest == <<inputs, job, taskv, accum, calls, preDir, preBucket>>

\* storage_provider = get_storage_provider(), when the application starts
ApiGetStorageProvider ==
    /\ pc = "boot"
    /\ IF Provider = "ValueError"
       THEN /\ Raised("get_storage_provider", "", "ValueError")
            /\ pc' = "failed"
       ELSE /\ Returned("get_storage_provider", "", NewProvider(settings))
            /\ pc' = "routes"
    /\ UNCHANGED <<inputs, stores, outcome, file_list, files_to_process,
                   skipped_count, dry_report, delete_skipped, delIdx,
                   delete_failed, taskv, accum, calls, preDir, preBucket>>

ApiGetFileUrl ==
    /\ pc = "routes"
    /\ \E filename \in ApiKeys :
          Returned("get_file_url", filename,
                   IF Provider = "local"
                   THEN LocalGetFileUrl(NewProvider(settings), filename)
                   ELSE S3GetFileUrl(NewProvider(settings), filename))
    /\ UNCHANGED <<stores, Rest>>

ApiSaveFile ==
    /\ pc = "routes"
    /\ \E filename \in ApiKeys : \E size \in {SizeOfName(filename), 7} :
          IF Provider = "local"
          THEN /\ IF localRoot
                  THEN /\ localDir' = LocalSaveFile(localDir, filename, size)
                       /\ Returned("save_file", filename, filename)
                  ELSE /\ Raised("save_file", filename, "FileNotFoundError")
                       /\ UNCHANGED localDir
               /\ UNCHANGED bucket
          ELSE /\ IF s3Up
                  THEN /\ bucket' = S3SaveFile(bucket, filename, size)
                       /\ Returned("save_file", filename, filename)
                  ELSE /\ S3Failure("save_file", filename)
                       /\ UNCHANGED bucket
               /\ UNCHANGED localDir
    /\ UNCHANGED Rest

ApiDeleteFile ==
    /\ pc = "routes"
    /\ \E filename \in ApiKeys :
          IF Provider = "local"
          THEN /\ IF filename \in DOMAIN localDir
                  THEN /\ localDir' = LocalDeleteFile(localDir, filename)
                       /\ Returned("delete_file", filename, "None")
                  ELSE /\ HTTPException("delete_file", filename, 404)
                       /\ UNCHANGED localDir
               /\ UNCHANGED bucket
          ELSE /\ IF ~s3Up
                  THEN S3Failure("delete_file", filename) /\ UNCHANGED bucket
                  ELSE IF filename \in DOMAIN bucket
                  THEN /\ bucket' = MapDel(bucket, filename)
                       /\ Returned("delete_file", filename, "None")
                  \* no such key: some services answer 204, some NoSuchKey
                  ELSE /\ \/ Returned("delete_file", filename, "None")
                          \/ HTTPException("delete_file", filename, 404)
                       /\ UNCHANGED bucket
               /\ UNCHANGED localDir
    /\ UNCHANGED Rest

ApiListFiles ==
    /\ pc = "routes"
    /\ IF Provider = "local"
       THEN IF localRoot
            THEN Returned("list_files", "", DictOf(LocalListFiles(localDir)))
            ELSE DirectoryNotFound("list_files")
       ELSE IF s3Up
            THEN Returned("list_files", "", S3ListFiles(bucket))
            ELSE S3Failure("list_files", "")
    /\ UNCHANGED <<stores, Rest>>

ApiGetFileCount ==
    /\ pc = "routes"
    /\ IF Provider = "local"
       THEN IF localRoot
            THEN Returned("get_file_count", "", LocalGetFileCount(localDir))
            ELSE DirectoryNotFound("get_file_count")
       ELSE IF s3Up
            THEN Returned("get_file_count", "", S3GetFileCount(bucket))
            ELSE S3Failure("get_file_count", "")
    /\ UNCHANGED <<stores, Rest>>

ApiGetTotalSize ==
    /\ pc = "routes"
    /\ IF Provider = "local"
       THEN IF localRoot
            THEN Returned("get_total_size", "", LocalGetTotalSize(localDir))
            ELSE DirectoryNotFound("get_total_size")
       ELSE IF s3Up
            THEN Returned("get_total_size", "", S3GetTotalSize(bucket))
            ELSE S3Failure("get_total_size", "")
    /\ UNCHANGED <<stores, Rest>>

NextStorage ==
    \/ ApiGetStorageProvider
    \/ ApiGetFileUrl
    \/ ApiSaveFile
    \/ ApiDeleteFile
    \/ ApiListFiles
    \/ ApiGetFileCount
    \/ ApiGetTotalSize

StorageSpec == InitStorage /\ [][NextStorage]_vars

\* ------------------------------------- the migration and the application
\* Both programs read the same settings and build their provider with
\* get_storage_provider: a behaviour is a run of either of them.
InitBoth == Init \/ InitStorage

NextBoth == Next \/ NextStorage

SpecBoth == InitBoth /\ [][NextBoth]_vars

\* ------------------------------------------------------------ the claims
Keys(seq) == {seq[j][1] : j \in 1..Len(seq)}
SlicedKeys == Keys(files_to_process)
FailedKeys == Keys(failed_uploads)
SucceededKeys == Range(successful_uploads)
DeleteCalls == {c[3] : c \in {d \in calls : d[1] = "local" /\ d[2] = "delete"}}
SaveCalls == {c[3] : c \in {d \in calls : d[2] = "save"}}
ReadCalls == {c[3] : c \in {d \in calls : d[2] = "read"}}
NoDeleteCall == \A c \in calls : c[2] # "delete"
NoSaveCall == \A c \in calls : c[2] # "save"
Finished == pc = "done" /\ outcome = "completed"

\* C1: with deleteLocal set, as soon as one task has ended failed no delete is
\* ever invoked on the source and the source holds exactly what it held
\* before the run, the keys of the successful tasks included.
C1_FailureDisablesDeletion ==
    (delete_local /\ failed_uploads # <<>>) =>
        /\ NoDeleteCall
        /\ localDir = preDir
        /\ pc # "deleting"

\* a finished run with deleteLocal, two tasks, one failed and one succeeded
C1_Witness ==
    /\ Finished
    /\ delete_local
    /\ failed_uploads # <<>>
    /\ successful_uploads # <<>>
    /\ delete_skipped

\* C2 as stated: after a run with deleteLocal and no failure, delete was
\* invoked on exactly the migrated keys, every migrated key is gone from the
\* source and every other key is still there.
C2_AsStated ==
    (Finished /\ delete_local /\ failed_uploads = <<>>) =>
        /\ DeleteCalls = SlicedKeys
        /\ DOMAIN localDir = DOMAIN preDir \ SlicedKeys

\* C2 amended: after a run with deleteLocal and no failure, delete was invoked
\* on exactly the migrated keys (the slice from startIndex on); a migrated key
\* is gone from the source unless its own delete call failed, and every key
\* outside the slice is still there, unchanged.
C2_DeletesExactlyMigrated ==
    (Finished /\ delete_local /\ failed_uploads = <<>>) =>
        /\ DeleteCalls = SucceededKeys
        /\ SucceededKeys = SlicedKeys
        /\ DOMAIN localDir = DOMAIN preDir \ (SlicedKeys \ Range(delete_failed))
        /\ \A k \in DOMAIN localDir : localDir[k] = preDir[k]

\* a finished run that skipped the first key and deleted the other two
C2_Witness ==
    /\ Finished
    /\ delete_local
    /\ failed_uploads = <<>>
    /\ start_from = 2
    /\ Len(successful_uploads) = 2
    /\ delete_failed = <<>>
    /\ DOMAIN localDir = {file_list[1][1]}

\* C3: the tasks admitted by the semaphore and not yet settled (reading,
\* saving or sleeping between attempts) are never more than concurrencyLimit.
InFlight == {i \in DOMAIN tpc : tpc[i] \in {"reading", "saving", "sleeping"}}
C3_BoundedInFlight == Cardinality(InFlight) <= concurrent_uploads

\* the limit is reached while another task still waits for admission
C3_Witness ==
    /\ pc = "uploading"
    /\ Cardinality(InFlight) = concurrent_uploads
    /\ concurrent_uploads = MaxConcurrency
    /\ \E i \in DOMAIN tpc : tpc[i] = "pending"
    /\ \E i \in InFlight : tpc[i] = "sleeping"

\* C4: a task whose every attempt fails ends Failed after exactly
\* maxRetries + 1 attempts, having waited 1, 2, 4, ..., 2^(maxRetries-1)
\* between them and nothing after the last; while an attempt runs, every
\* earlier attempt has had its outcome and its whole backoff wait.
ExpectedWaits(n) == [j \in 1..n |-> 2 ^ (j - 1)]
C4_RetriesAndBackoff ==
    \A i \in DOMAIN tpc :
        /\ (tpc[i] = "done" /\ faults[i] > max_retries) =>
              /\ Filename(i) \in FailedKeys
              /\ attemptsMade[i] = max_retries + 1
              /\ backoffs[i] = ExpectedWaits(max_retries)
        /\ Filename(i) \in FailedKeys =>
              /\ attemptsMade[i] = max_retries + 1
              /\ backoffs[i] = ExpectedWaits(max_retries)
        /\ tpc[i] \in {"reading", "saving"} =>
              /\ sleepLeft[i] = 0
              /\ Len(backoffs[i]) = attemptsMade[i] - 1
              /\ backoffs[i] = ExpectedWaits(attemptsMade[i] - 1)
        /\ tpc[i] = "sleeping" =>
              /\ Len(backoffs[i]) = attemptsMade[i]
              /\ sleepLeft[i] <= backoffs[i][attemptsMade[i]]

\* a task failed for good after MaxRetriesBound + 1 attempts
C4_Witness ==
    /\ max_retries = MaxRetriesBound
    /\ \E i \in DOMAIN tpc :
          /\ tpc[i] = "done"
          /\ Filename(i) \in FailedKeys
          /\ attemptsMade[i] = MaxRetriesBound + 1
          /\ Len(backoffs[i]) = MaxRetriesBound

\* C5 as stated: after a run without failure into a bucket that was empty,
\* the destination's list() is the pre-run source listing cut to the slice
\* from startIndex on: the same keys, each with the same size.
SliceListing ==
    [k \in SlicedKeys |->
        files_to_process[CHOOSE j \in 1..Len(files_to_process) :
                            files_to_process[j][1] = k][2]]
C5_AsStated ==
    (Finished /\ failed_uploads = <<>> /\ preBucket = EmptyMap) =>
        S3ListFiles(bucket) = SliceListing

\* C6: with 1 <= k <= total the run issues exactly total - k + 1 tasks, those
\* at inventory positions k..total in listing order, reports k - 1 as
\* skipped, and neither reads nor saves any object at a position before k.
Issued == pc \in {"uploading", "deleting"} \/ Finished
C6_ResumeSlice ==
    Issued =>
        LET total == Len(file_list)
            k == start_from
        IN  /\ file_list = LocalListFiles(preDir)
            /\ 1 <= k /\ k <= total
            /\ DOMAIN tpc = 1..(total - k + 1)
            /\ Len(files_to_process) = total - k + 1
            /\ \A j \in 1..Len(files_to_process) :
                  files_to_process[j] = file_list[k + j - 1]
            /\ skipped_count = k - 1
            /\ \A q \in 1..total :
                  q < k => file_list[q][1] \notin (ReadCalls \cup SaveCalls)
            /\ Finished =>
                  /\ completed_count = total - k + 1
                  /\ SucceededKeys \cup FailedKeys =
                        {file_list[q][1] : q \in k..total}
                  /\ ReadCalls = {file_list[q][1] : q \in k..total}

\* a finished run over three files that started from the second
C6_Witness ==
    /\ Finished
    /\ Len(file_list) = MaxFiles
    /\ start_from = 2
    /\ skipped_count = 1
    /\ completed_count = MaxFiles - 1

\* C7: a dry run never invokes save or delete on either backend, whatever the
\* inventory, startIndex and deleteLocal; both stores stay as they were.
C7_DryRunTouchesNothing ==
    dry_run =>
        /\ NoSaveCall
        /\ NoDeleteCall
        /\ ReadCalls = {}
        /\ localDir = preDir
        /\ bucket = preBucket
        /\ pc \notin {"uploading", "deleting"}

\* a dry run with deleteLocal that listed the slice from the second file on
C7_Witness ==
    /\ pc = "done"
    /\ outcome = "dry_run"
    /\ delete_local
    /\ start_from = 2
    /\ Len(dry_report) = 2
    /\ dry_report[1][1] = 2

\* C8: every task goes from pending to a terminal status exactly once: the
\* key of a settled task occurs exactly once in successes and failures taken
\* together, the key of an unsettled task not at all, nothing else is in the
\* accumulators, and a settled task stays settled and starts no new attempt.
Occurrences(seq, x) == Cardinality({j \in 1..Len(seq) : seq[j] = x})
FailedNames == [j \in 1..Len(failed_uploads) |-> failed_uploads[j][1]]
C8_OncePerTask ==
    /\ \A i \in DOMAIN tpc :
          Occurrences(successful_uploads, Filename(i))
            + Occurrences(FailedNames, Filename(i))
          = IF tpc[i] = "done" THEN 1 ELSE 0
    /\ Len(successful_uploads) + Len(failed_uploads)
          = Cardinality({i \in DOMAIN tpc : tpc[i] = "done"})
    /\ SucceededKeys \cup FailedKeys \subseteq SlicedKeys
    /\ (pc = "deleting" \/ Finished) => \A i \in DOMAIN tpc : tpc[i] = "done"
C8_NeverRevisited ==
    \A i \in DOMAIN tpc :
        tpc[i] = "done" =>
            /\ tpc'[i] = "done"
            /\ attemptsMade'[i] = attemptsMade[i]
            /\ attempt'[i] = attempt[i]
C8_ExactlyOnce == [] C8_OncePerTask /\ [][C8_NeverRevisited]_vars

\* all tasks settled, some succeeded and some failed
C8_Witness ==
    /\ Finished
    /\ Len(files_to_process) = MaxFiles
    /\ successful_uploads # <<>>
    /\ failed_uploads # <<>>

\* C9: the permanent failure of a task aborts no sibling: every settled task
\* has run its own attempts (one more than the failures it met, at most
\* maxRetries + 1), a task that can succeed within its attempts is among the
\* successes and only a task that cannot is among the failures, and the run
\* reports only when all tasks have settled this way.
OwnAttempts(i) ==
    IF faults[i] > max_retries THEN max_retries + 1 ELSE faults[i] + 1
C9_SiblingsIndependent ==
    /\ \A i \in DOMAIN tpc :
          tpc[i] = "done" =>
              /\ attemptsMade[i] = OwnAttempts(i)
              /\ (faults[i] <= max_retries) <=> (Filename(i) \in SucceededKeys)
              /\ (faults[i] > max_retries) <=> (Filename(i) \in FailedKeys)
              /\ faults[i] <= max_retries => Filename(i) \in DOMAIN bucket
    /\ (pc = "deleting" \/ Finished) => \A i \in DOMAIN tpc : tpc[i] = "done"

\* the second task failed for good first, the first task, admitted before
\* it, succeeded afterwards
C9_Witness ==
    /\ Finished
    /\ Len(status_lines) >= 2
    /\ status_lines[1] = <<start_from, Filename(2), FALSE>>
    /\ status_lines[2] = <<start_from + 1, Filename(1), TRUE>>
    /\ faults[1] > 0

\* C10 as stated: whatever the inventory, empty or not, a run that gets its
\* source listing and whose startIndex is below 1 or above the size of the
\* inventory ends with a validation error, without read, save or delete.
GotListing ==
    /\ GetStorageProvider(settings) = "s3"
    /\ localRoot
    /\ entry = "main" => s3Up
Inventory == LocalListFiles(preDir)
StartIndexOutOfRange == start_from < 1 \/ start_from > Len(Inventory)
NoTransfer ==
    /\ ReadCalls = {}
    /\ NoSaveCall
    /\ NoDeleteCall
    /\ localDir = preDir
    /\ bucket = preBucket
    /\ DOMAIN tpc = {}
C10_AsStated ==
    (pc = "done" /\ GotListing /\ StartIndexOutOfRange) =>
        outcome = "validation_error" /\ NoTransfer

\* C10 amended: a run that gets its source listing and whose startIndex is
\* below 1 or above the size of the inventory never reads, saves or deletes
\* anything; it ends with a validation error when the inventory is not empty
\* and with the "no files to migrate" notice when the inventory is empty.
C10_OutOfRangeStartIndex ==
    (GotListing /\ StartIndexOutOfRange) =>
        /\ NoTransfer
        /\ pc \in {"main", "start", "listed", "done"}
        /\ pc = "done" =>
              outcome = IF Inventory = <<>> THEN "no_files" ELSE "validation_error"

\* a run over a full directory ended with a validation error: startIndex is
\* one more than the number of files
C10_Witness ==
    /\ pc = "done"
    /\ outcome = "validation_error"
    /\ Len(file_list) = MaxFiles
    /\ start_from = MaxFiles + 1
    /\ ~dry_run
    /\ answer = <<"y">>

\* C11 as stated: the index shown in the status line of a settled task is
\* the position of that task's key in the full source inventory.
PositionOf(name) == CHOOSE q \in 1..Len(file_list) : file_list[q][1] = name
C11_AsStated ==
    \A j \in 1..Len(status_lines) :
        status_lines[j][1] = PositionOf(status_lines[j][2])

\* C12 as stated: tasks that only sleep in backoff do not keep the task that
\* waits first in line from being admitted.
FirstPending(i) ==
    /\ tpc[i] = "pending"
    /\ \A j \in DOMAIN tpc : j < i => tpc[j] # "pending"
OnlySleepers ==
    /\ InFlight # {}
    /\ \A j \in InFlight : tpc[j] = "sleeping"
C12_AsStated ==
    (pc = "uploading" /\ OnlySleepers) =>
        \A i \in DOMAIN tpc : FirstPending(i) => ENABLED Acquire(i)

\* C12 amended: the suspension of a task never blocks a task that holds an
\* admission slot (a reading, saving or sleeping task can always take its
\* next step), and the task first in line is admitted exactly when fewer
\* than concurrencyLimit tasks hold a slot; a task sleeping in backoff keeps
\* its slot, so it does keep a waiting task out while all slots are held.
C12_SuspensionAndSlots ==
    pc = "uploading" =>
        \A i \in DOMAIN tpc :
            /\ tpc[i] = "reading" => ENABLED (ReadOk(i) \/ ReadFail(i))
            /\ tpc[i] = "saving" => ENABLED (SaveOk(i) \/ SaveFail(i))
            /\ tpc[i] = "sleeping" => ENABLED (Wake(i) \/ Tick)
            /\ FirstPending(i) =>
                  (ENABLED Acquire(i)
                      <=> Cardinality(InFlight) < concurrent_uploads)

\* every slot is held by a sleeping task while the next task waits and
\* cannot be admitted
C12_Witness ==
    /\ pc = "uploading"
    /\ concurrent_uploads = MaxConcurrency
    /\ OnlySleepers
    /\ Cardinality(InFlight) = MaxConcurrency
    /\ \E i \in DOMAIN tpc : FirstPending(i) /\ ~ ENABLED Acquire(i)

\* C13: no update of the shared accumulators is lost: in every state
\* completedCount is the number of entries of successes and failures taken
\* together and the number of settled tasks, and once all tasks have settled
\* it is the number of tasks of the slice.
C13_NoLostUpdate ==
    /\ completed_count = Len(successful_uploads) + Len(failed_uploads)
    /\ completed_count = Len(status_lines)
    /\ completed_count = Cardinality({i \in DOMAIN tpc : tpc[i] = "done"})
    /\ (pc = "deleting" \/ Finished) => completed_count = Len(files_to_process)

\* two tasks ran side by side and every task of a full slice was counted
C13_Witness ==
    /\ Finished
    /\ concurrent_uploads = MaxConcurrency
    /\ completed_count = MaxFiles
    /\ Len(status_lines) = MaxFiles
    /\ status_lines[1][2] # Filename(1)

\* C14: the failure list holds exactly the keys of the tasks that ended
\* Failed, each once, each with the error of the task's last attempt (the
\* attempt numbered maxRetries, counting from 0), and once the run has
\* finished successes and failures add up to the tasks processed.
TaskOf(name) == CHOOSE i \in DOMAIN tpc : Filename(i) = name
C14_FailureReport ==
    /\ \A j, l \in 1..Len(failed_uploads) :
          failed_uploads[j][1] = failed_uploads[l][1] => j = l
    /\ \A j \in 1..Len(failed_uploads) :
          LET name == failed_uploads[j][1]
              error == failed_uploads[j][2]
          IN  /\ name \in SlicedKeys
              /\ tpc[TaskOf(name)] = "done"
              /\ faults[TaskOf(name)] > max_retries
              /\ error[1] \in {"read", "save"}
              /\ error[2] = max_retries
              /\ error[2] + 1 = attemptsMade[TaskOf(name)]
              /\ error[1] = "save" => name \in SaveCalls
    /\ \A i \in DOMAIN tpc :
          (tpc[i] = "done" /\ faults[i] > max_retries)
              => Filename(i) \in FailedKeys
    /\ Finished =>
          Len(successful_uploads) + Len(failed_uploads) = Len(files_to_process)

\* a failure reported with the error its last save raised, after the most
\* retries, next to a success
C14_Witness ==
    /\ Finished
    /\ max_retries = MaxRetriesBound
    /\ successful_uploads # <<>>
    /\ \E j \in 1..Len(failed_uploads) :
          failed_uploads[j][2] = <<"save", MaxRetriesBound>>

\* C15: a task whose first j attempts fail and whose next attempt succeeds,
\* j <= maxRetries, is recorded as successful after exactly j + 1 attempts
\* with the waits 1, 2, ..., 2^(j-1) between them; from then on it makes no
\* further attempt, its key is not among the failures and the bucket holds
\* what it read.
C15_SuccessAfterRetries ==
    \A i \in DOMAIN tpc :
        /\ (tpc[i] = "done" /\ faults[i] <= max_retries)
              => Filename(i) \in SucceededKeys
        /\ Filename(i) \in SucceededKeys =>
              /\ tpc[i] = "done"
              /\ faults[i] <= max_retries
              /\ attemptsMade[i] = faults[i] + 1
              /\ attempt[i] = faults[i]
              /\ backoffs[i] = ExpectedWaits(faults[i])
              /\ sleepLeft[i] = 0
              /\ Filename(i) \notin FailedKeys
              /\ Occurrences(successful_uploads, Filename(i)) = 1
              /\ Filename(i) \in DOMAIN bucket
              /\ bucket[Filename(i)] = content[i]

\* a task succeeded on its very last attempt, after MaxRetriesBound failures
C15_Witness ==
    /\ max_retries = MaxRetriesBound
    /\ \E i \in DOMAIN tpc :
          /\ Filename(i) \in SucceededKeys
          /\ faults[i] = MaxRetriesBound
          /\ Len(backoffs[i]) = MaxRetriesBound

\* C16: in a run of main, the source listing, the confirmation request and
\* every read, save and delete come after a destination list() that
\* succeeded; when the connection test fails the run ends at once, without
\* source listing, confirmation, save or delete.
ConfirmAsked == <<"operator", "confirm", "">> \in calls
SourceListed == <<"local", "list", "">> \in calls
C16_VerifiedBeforeConfirm ==
    entry = "main" =>
        /\ (\/ ConfirmAsked
            \/ SourceListed
            \/ ReadCalls # {}
            \/ ~NoSaveCall
            \/ ~NoDeleteCall
            \/ pc \in {"start", "listed", "uploading", "deleting"})
              => <<"s3", "list", "ok">> \in calls
        /\ (~Verified /\ pc # "main") =>
              /\ pc = "done"
              /\ outcome = "no_connection"
              /\ <<"s3", "list", "ok">> \notin calls
              /\ ~ConfirmAsked
              /\ ~SourceListed
              /\ ReadCalls = {}
              /\ NoSaveCall
              /\ NoDeleteCall
              /\ localDir = preDir
              /\ bucket = preBucket

\* a run of main that uploaded after the connection test and the prompt
C16_Witness ==
    /\ entry = "main"
    /\ Finished
    /\ <<"s3", "list", "ok">> \in calls
    /\ ConfirmAsked
    /\ ~NoSaveCall

\* C17: deletion is best-effort: while the loop runs it can always go on, a
\* failed delete included, and after a run with deleteLocal and no failed
\* upload delete has been invoked for every migrated key, whichever of the
\* deletes failed; a key whose delete did not fail is gone.
C17_BestEffortDeletion ==
    /\ pc = "deleting" =>
          /\ delIdx \in 1..Len(successful_uploads)
          /\ ENABLED (DeleteOk \/ DeleteFail)
          /\ DeleteCalls = {successful_uploads[j] : j \in 1..(delIdx - 1)}
    /\ Range(delete_failed) \subseteq DeleteCalls
    /\ (Finished /\ delete_local /\ failed_uploads = <<>>) =>
          /\ delIdx = Len(successful_uploads) + 1
          /\ DeleteCalls = SucceededKeys
          /\ \A k \in SucceededKeys \ Range(delete_failed) :
                k \notin DOMAIN localDir

\* the delete of the first migrated key failed and the last one was deleted
C17_Witness ==
    /\ Finished
    /\ delete_local
    /\ Len(successful_uploads) = MaxFiles
    /\ delete_failed = <<successful_uploads[1]>>
    /\ successful_uploads[MaxFiles] \notin DOMAIN localDir

\* C18: the inventory is the listing taken once before the uploads: a
\* file added to the directory after it is never read, never saved to the
\* bucket, never reported as uploaded or failed, never deleted, and stays
\* in the directory; the report counts the files of the first listing.
C18_NothingOfLateObject ==
    /\ LateName \notin Keys(file_list) \cup SlicedKeys
    /\ LateName \notin ReadCalls \cup SaveCalls \cup DeleteCalls
    /\ LateName \notin SucceededKeys \cup FailedKeys
    /\ LateName \notin DOMAIN bucket
    /\ \A j \in 1..Len(status_lines) : status_lines[j][2] # LateName
    /\ pc \in {"listed", "uploading", "deleting"} =>
          file_list = LocalListFiles(preDir)
    /\ Issued =>
          files_to_process = SubSeq(LocalListFiles(preDir), start_from,
                                    Len(LocalListFiles(preDir)))
    /\ Finished =>
          Len(successful_uploads) + Len(failed_uploads)
              = Len(LocalListFiles(preDir)) - skipped_count
C18_LateObjectStays == (LateName \in DOMAIN localDir) => (LateName \in DOMAIN localDir')
C18_SnapshotNotReread == [] C18_NothingOfLateObject /\ [][C18_LateObjectStays]_vars

\* every listed file was migrated and deleted; the late file alone is left
C18_Witness ==
    /\ Finished
    /\ delete_local
    /\ Len(successful_uploads) >= 2
    /\ delete_failed = <<>>
    /\ DOMAIN localDir = {LateName}

\* C19: as stated: with either provider, a store that holds .gitkeep lists,
\* counts and sizes every entry but .gitkeep (stores of at most one page of
\* keys, so that nothing but the placeholder is at stake).
NonSentinel == [k \in DOMAIN Stored \ {GitKeep} |-> Stored[k]]
Answered(op) == api.op = op /\ api.status = "ok"
C19_AsStated ==
    (GitKeep \in DOMAIN Stored /\ Cardinality(DOMAIN Stored) <= MaxKeys) =>
        /\ Answered("list_files") => api.value = NonSentinel
        /\ Answered("get_file_count") =>
              api.value = Cardinality(DOMAIN NonSentinel)
        /\ Answered("get_total_size") => api.value = SumValues(NonSentinel)

\* C20: as stated: with either provider and any number of stored objects,
\* list_files returns exactly the stored objects with their sizes,
\* get_file_count their number and get_total_size the sum of their sizes;
\* an empty store that can be reached lists as the empty mapping.
Reachable == IF Provider = "s3" THEN s3Up ELSE localRoot
C20_AsStated ==
    /\ GitKeep \notin DOMAIN Stored =>
          /\ Answered("list_files") => api.value = Stored
          /\ Answered("get_file_count") =>
                api.value = Cardinality(DOMAIN Stored)
          /\ Answered("get_total_size") => api.value = SumValues(Stored)
    /\ (api.op = "list_files" /\ Reachable /\ Stored = EmptyMap) =>
          (api.status = "ok" /\ api.value = EmptyMap)

\* C21: as stated: with either provider that can be reached, delete_file of
\* a key that is not stored fails with 404 Not Found and changes nothing,
\* and delete_file of a stored key returns and removes exactly that key.
DeleteFileStep == api'.op = "delete_file" /\ api' # api
C21_DeleteOutcome ==
    (DeleteFileStep /\ Reachable) =>
        IF api'.key \in DOMAIN Stored
        THEN /\ api'.status = "ok"
             /\ Stored' = MapDel(Stored, api'.key)
        ELSE /\ api'.status = "HTTPException"
             /\ api'.value = 404
             /\ Stored' = Stored
C21_AsStated == [][C21_DeleteOutcome]_vars

\* C22: as stated: every call of a provider method either returns its
\* result or fails with an HTTPException of the taxonomy (404 Not Found,
\* 500 backend error), whatever fails underneath; a save that returned has
\* stored the key.
ProviderMethods ==
    {"save_file", "delete_file", "get_file_url", "list_files",
     "get_file_count", "get_total_size"}
C22_AsStated ==
    api.op \in ProviderMethods =>
        /\ api.status \in {"ok", "HTTPException"}
        /\ api.status = "HTTPException" => api.value \in {404, 500}
        /\ (api.op = "save_file" /\ api.status = "ok") =>
              api.key \in DOMAIN Stored

\* C23: when the storage type is s3 and a required field is unset or empty,
\* get_storage_provider raises ValueError and nothing is done to a store:
\* the application gets no provider, and the migration ends with a
\* configuration error without a list, a save or a delete.  When the four
\* fields are set, the S3 provider built holds exactly their values.
S3Wanted == settings.storage_type \in {"s3", "S3"}
FieldMissing ==
    \E field \in {settings.s3_endpoint_url, settings.s3_access_key_id,
                  settings.s3_secret_access_key, settings.s3_bucket_name} :
        ~field.set \/ field.text = <<>>
Constructed == api.op = "get_storage_provider"
C23_ValidatedBeforeIO ==
    /\ (S3Wanted /\ FieldMissing) =>
          /\ calls = {}
          /\ localDir = preDir
          /\ bucket = preBucket
          /\ api.op \in {"none", "get_storage_provider"}
          /\ Constructed => (api.status = "raised" /\ api.value = "ValueError")
          /\ pc \in {"main", "start", "done", "boot", "failed"}
          /\ pc = "done" => outcome \in {"no_connection", "config_error"}
    /\ (S3Wanted /\ ~FieldMissing /\ Constructed) =>
          /\ api.status = "ok"
          /\ api.value.class = "S3StorageProvider"
          /\ api.value.endpoint_url = settings.s3_endpoint_url.text
          /\ api.value.access_key_id = settings.s3_access_key_id.text
          /\ api.value.secret_access_key = settings.s3_secret_access_key.text
          /\ api.value.bucket_name = settings.s3_bucket_name.text

\* the factory refused settings whose secret is the empty string, over a
\* bucket that holds objects
C23_Witness ==
    /\ pc = "failed"
    /\ settings.s3_secret_access_key = Str(<<>>)
    /\ settings.s3_endpoint_url = EndpointUrl
    /\ api.status = "raised"
    /\ bucket # EmptyMap

\* C24: no local file is deleted while a task of the run is pending, in
\* flight or sleeping before a retry: whenever the deletion loop is entered
\* or a delete has been invoked every task is done, a step that invokes a
\* delete starts from such a state, and the directory is untouched until
\* then.
Unsettled == {i \in DOMAIN tpc : tpc[i] # "done"}
C24_DeleteImpliesSettled ==
    /\ (pc = "deleting" \/ ~NoDeleteCall) =>
          /\ Unsettled = {}
          /\ Len(successful_uploads) + Len(failed_uploads)
                = Len(files_to_process)
          /\ outcome = "completed"
    /\ Unsettled # {} => (NoDeleteCall /\ delete_failed = <<>>)
C24_DeleteStep ==
    (DeleteCalls' # DeleteCalls \/ delete_failed' # delete_failed) =>
        /\ Unsettled = {}
        /\ tpc' = tpc
        /\ pc = "deleting"
C24_NoDeleteBeforeSettled ==
    [] C24_DeleteImpliesSettled /\ [][C24_DeleteStep]_vars

\* files were deleted after a run in which uploads overlapped and one had
\* to wait before a retry
C24_Witness ==
    /\ Finished
    /\ ~NoDeleteCall
    /\ concurrent_uploads = MaxConcurrency
    /\ Len(files_to_process) >= MaxConcurrency
    /\ \E i \in DOMAIN tpc : Len(backoffs[i]) >= 1

\* C25: in a run that is not a dry run, a save, a delete or an upload
\* phase happens only after the prompt was answered with y or Y, blanks
\* around it aside; such an answer is not taken for a refusal, and after
\* any other answer the run is over with the directory and the bucket as
\* they were.
AnsweredYes ==
    \E j \in 1..Len(answer) :
        /\ answer[j] \in {"y", "Y"}
        /\ \A k \in 1..Len(answer) : k # j => answer[k] \in Whitespace
C25_NothingWithoutYes ==
    ~dry_run =>
        /\ (~NoSaveCall \/ ~NoDeleteCall \/ ReadCalls # {}
               \/ pc \in {"uploading", "deleting"} \/ Finished)
              => (AnsweredYes /\ ConfirmAsked)
        /\ (ConfirmAsked /\ AnsweredYes) => outcome # "cancelled"
        /\ (ConfirmAsked /\ ~AnsweredYes) =>
              /\ pc = "done"
              /\ outcome = "cancelled"
              /\ NoSaveCall
              /\ NoDeleteCall
              /\ ReadCalls = {}
              /\ localDir = preDir
              /\ bucket = preBucket

\* the run uploaded after the operator typed " Y" and a tab
C25_Witness ==
    /\ Finished
    /\ ~dry_run
    /\ answer = <<" ", "Y", "\t">>
    /\ ~NoSaveCall

\* C26: once the tasks are handed to the event loop every one of them
\* eventually is done, whether it succeeds or fails, and the run eventually
\* prints its report; so a task that waits for the semaphore is eventually
\* admitted.
Done(i) == i \in DOMAIN tpc /\ tpc[i] = "done"
C26_EveryTaskSettles ==
    /\ \A i \in 1..MaxFiles : (pc = "uploading" /\ i \in DOMAIN tpc) ~> Done(i)
    /\ (pc = "uploading") ~> (outcome = "completed" /\ Unsettled = {})

\* the first of several tasks failed for good, holding the only slot, and
\* the tasks after it were admitted and done when the report came
C26_Witness ==
    /\ outcome = "completed"
    /\ concurrent_uploads = 1
    /\ Len(files_to_process) = MaxFiles
    /\ Len(failed_uploads) >= 1
    /\ failed_uploads[1][1] = Filename(1)
    /\ successful_uploads # <<>>
    /\ Unsettled = {}

====
